---- MODULE Spec2Model ----
(***************************************************************************)
(* PortuVan: the scoring of locations (dashboard.py, load_data), the      *)
(* itinerary generator (generate_random_trip), the routing call            *)
(* (get_route_segment) and the trip assembly pass of the Trip Generator    *)
(* tab, which runs on every execution of the Streamlit script.             *)
(* build_database (data_builder.py), which writes the file load_data       *)
(* reads, is modelled on the same file variable.                           *)
(*                                                                         *)
(* Numbers.  Python floats are modelled by scaled integers:                *)
(*   latitudes        in 1/10000 degree   (38.6 is 386000)                 *)
(*   ratings          in tenths of a star (4.5 is 45)                      *)
(*   review counts, amenity scores, metres and seconds as integers         *)
(*   weighted_score   in units of 1/(250 * LogScale)                       *)
(* np.log10 is modelled by its value rounded down to a multiple of         *)
(* 1/LogScale; it is exact at 1 (log10(1) = 0) and monotone, as log10 is.  *)
(***************************************************************************)
EXTENDS Integers, Sequences, FiniteSets, TLC

VARIABLES
    csv,             \* trip_data.csv: NoFile, or its rows as read by pd.read_csv
    df,              \* the DataFrame returned by load_data
    preference,      \* the preference handed to the last generate_random_trip call
    rnd,             \* what the random source and the unstable sort gave that call
    trip,            \* st.session_state['trip']; <<>> while the key is absent
    pc,              \* position of the script
    i,               \* loop index of the assembly loop
    total_dist,      \* running total of the assembly pass (metres)
    total_duration,  \* running total of the assembly pass (seconds)
    segments,        \* what get_route_segment returned for each leg of this pass
    requests,        \* the (start, end) pairs get_route_segment was called with in this pass
    response,        \* what requests.get met on the last call of this pass
    existing_df,     \* build_database: the rows read from the file at its start
    cached_names,    \* build_database: the names it takes as already stored
    new_rows,        \* build_database: the rows it has collected so far
    pos,             \* build_database: index in search_points, then in raw_df
    original         \* the file as build_database found it

\* the state of build_database (data_builder.py)
buildVars == <<existing_df, cached_names, new_rows, pos, original>>

\* the state of one execution of the dashboard script (dashboard.py)
dashVars == <<df, preference, rnd, trip, i, total_dist, total_duration, segments,
              requests, response>>

vars == <<csv, df, preference, rnd, trip, pc, i, total_dist, total_duration, segments,
          requests, response, existing_df, cached_names, new_rows, pos, original>>

(***************************************************************************)
(* Program constants                                                       *)
(***************************************************************************)
LISBON_LAT == 387223
PORTO_LAT == 411579
ENDPOINT_RATING == 50
WILD_MIN_AMENITY == 70
POPULAR_MIN_REVIEWS == 500
ALENTEJO_HI == 386000
ALENTEJO_LO == 373000
ALGARVE_HI == 372000
CENTER_LO == 390000
CENTER_HI == 408000
TOP_K == 5

(***************************************************************************)
(* Bounds of the model                                                     *)
(***************************************************************************)
LogScale == 2
MaxRating == 50
MaxReviews == 12

(***************************************************************************)
(* Cells of the CSV as pd.read_csv / pd.to_numeric(errors='coerce') see    *)
(* them: a number, or NaN (an empty cell, "N/A", any non-numeric text).    *)
(***************************************************************************)
Num(v) == [nan |-> FALSE, v |-> v]
NaN == [nan |-> TRUE, v |-> 0]

\* pd.to_numeric(col, errors='coerce').fillna(0), for one cell
to_numeric_fillna(cell) == IF cell.nan THEN 0 ELSE cell.v

\* np.log10(m) for m >= 1, in units of 1/LogScale, rounded down:
\* the number of k with 10^k <= m^LogScale
np_log10(m) == Cardinality({k \in 1..9 : 10^k <= m^LogScale})

\* rating * (log10(n+1) + 1): a scoring that does not vanish at zero reviews
weighted_score_offset(rating, user_ratings_total, amenity_score) ==
    25 * rating * (np_log10(user_ratings_total + 1) + LogScale)
        + 10 * LogScale * amenity_score

\* amenity/25 - rating * log10(n+1): the sign of the rating term flipped
weighted_score_minus(rating, user_ratings_total, amenity_score) ==
    10 * LogScale * amenity_score
        - 25 * rating * np_log10(user_ratings_total + 1)

\* x['rating'] * np.log10(x['user_ratings_total'] + 1) + (x['amenity_score'] / 25)
\* in units of 1/(250 * LogScale): 250*LogScale * (rating/10) * (L/LogScale) = 25*rating*L
weighted_score(rating, user_ratings_total, amenity_score) ==
    25 * rating * np_log10(user_ratings_total + 1)
        + 10 * LogScale * amenity_score

\* The kind of float the lambda of lines 87-90 yields.  np.log10 of a negative
\* number is nan, np.log10(0) is -inf (numpy warns and does not raise);
\* 0 * -inf is nan, and adding the finite amenity term changes none of these.
weighted_score_class(rating, user_ratings_total, amenity_score) ==
    IF user_ratings_total + 1 > 0 THEN "finite"
    ELSE IF user_ratings_total + 1 < 0 THEN "nan"
    ELSE IF rating > 0 THEN "-inf"
    ELSE IF rating < 0 THEN "inf"
    ELSE "nan"

\* one row of the frame after lines 84-90; weighted_score_class tells whether
\* the float in weighted_score is finite (its value is then the integer given)
LoadRow(raw) ==
    LET r == to_numeric_fillna(raw.rating)
        n == to_numeric_fillna(raw.user_ratings_total)
        a == to_numeric_fillna(raw.amenity_score)
        c == weighted_score_class(r, n, a)
    IN  [name |-> raw.name, lat |-> raw.lat, type |-> raw.type,
         rating |-> r, user_ratings_total |-> n, amenity_score |-> a,
         weighted_score |-> IF c = "finite" THEN weighted_score(r, n, a) ELSE 0,
         weighted_score_class |-> c]

COLUMNS == {"name", "lat", "type", "rating", "user_ratings_total",
            "amenity_score", "weighted_score"}

NoFile == [exists |-> FALSE, rows |-> <<>>]
File(rows) == [exists |-> TRUE, rows |-> rows]

\* pd.DataFrame(): no columns, no rows
EmptyFrame == [columns |-> {}, rows |-> <<>>]

\* load_data()
load_data(file) ==
    IF ~file.exists
    THEN EmptyFrame
    ELSE [columns |-> COLUMNS,
          rows |-> [k \in 1..Len(file.rows) |-> LoadRow(file.rows[k])]]

(***************************************************************************)
(* DataFrame operations used by generate_random_trip                       *)
(***************************************************************************)
Min(a, b) == IF a < b THEN a ELSE b
Max(a, b) == IF a > b THEN a ELSE b

\* rows without the k-th
Drop(rows, k) == SubSeq(rows, 1, k - 1) \o SubSeq(rows, k + 1, Len(rows))

\* sort_values with ascending=False forgotten: lowest score first
RECURSIVE sort_values_ascending(_)
sort_values_ascending(rows) ==
    IF rows = <<>>
    THEN {<<>>}
    ELSE LET low == {k \in 1..Len(rows) :
                        \A j \in 1..Len(rows) :
                            rows[j].weighted_score >= rows[k].weighted_score}
         IN  UNION {{<<rows[k]>> \o rest : rest \in sort_values_ascending(Drop(rows, k))}
                       : k \in low}

\* rows.sort_values('weighted_score', ascending=False): pandas sorts with an
\* unstable quicksort, so rows of equal score may come out in any order.
\* The set of the orders the call may return.
RECURSIVE sort_values(_)
sort_values(rows) ==
    IF rows = <<>>
    THEN {<<>>}
    ELSE LET top == {k \in 1..Len(rows) :
                        \A j \in 1..Len(rows) :
                            rows[j].weighted_score <= rows[k].weighted_score}
         IN  UNION {{<<rows[k]>> \o rest : rest \in sort_values(Drop(rows, k))}
                       : k \in top}

\* rows.head(n)
head(rows, n) == SubSeq(rows, 1, Min(n, Len(rows)))

\* rows.sample(1).iloc[0].to_dict(), the random source drawing position u
sample(rows, u) == rows[u]

\* the filters with >= in place of >
candidates_inclusive(rows, pref) ==
    IF pref = "Wild & Nature"
    THEN SelectSeq(rows, LAMBDA x : x.amenity_score >= WILD_MIN_AMENITY)
    ELSE IF pref = "Popular & Social"
    THEN SelectSeq(rows, LAMBDA x : x.user_ratings_total >= POPULAR_MIN_REVIEWS)
    ELSE rows

\* only "Balanced" left unfiltered: any other value filtered as Wild & Nature
candidates_unknown_as_wild(rows, pref) ==
    IF pref = "Balanced"
    THEN rows
    ELSE IF pref = "Popular & Social"
    THEN SelectSeq(rows, LAMBDA x : x.user_ratings_total > POPULAR_MIN_REVIEWS)
    ELSE SelectSeq(rows, LAMBDA x : x.amenity_score > WILD_MIN_AMENITY)

\* df[df['amenity_score'] > 70] / df[df['user_ratings_total'] > 500] / df
candidates(rows, pref) ==
    IF pref = "Wild & Nature"
    THEN SelectSeq(rows, LAMBDA x : x.amenity_score > WILD_MIN_AMENITY)
    ELSE IF pref = "Popular & Social"
    THEN SelectSeq(rows, LAMBDA x : x.user_ratings_total > POPULAR_MIN_REVIEWS)
    ELSE rows

\* the Alentejo band without its lower bound: it then covers the Algarve too
alentejo_no_lower(cand) == SelectSeq(cand, LAMBDA x : x.lat < ALENTEJO_HI)

\* candidates[(candidates['lat'] < 38.6) & (candidates['lat'] > 37.3)]
alentejo(cand) ==
    SelectSeq(cand, LAMBDA x : x.lat < ALENTEJO_HI /\ x.lat > ALENTEJO_LO)

\* candidates[candidates['lat'] < 37.2]
algarve(cand) == SelectSeq(cand, LAMBDA x : x.lat < ALGARVE_HI)

\* the Centre band with its lower bound taken from the upper one
center_above(cand) == SelectSeq(cand, LAMBDA x : x.lat > CENTER_HI)

\* candidates[(candidates['lat'] > 39.0) & (candidates['lat'] < 40.8)]
center(cand) ==
    SelectSeq(cand, LAMBDA x : x.lat > CENTER_LO /\ x.lat < CENTER_HI)

StartStop == [name |-> "Lisbon", lat |-> LISBON_LAT, type |-> "Start",
              rating |-> ENDPOINT_RATING]
EndStop == [name |-> "Porto", lat |-> PORTO_LAT, type |-> "End",
            rating |-> ENDPOINT_RATING]

\* What one call draws: a position in each non-empty pool and the order the
\* sort returned.  Draws of a skipped band are not made (recorded as 1, <<>>).
RandomSources(rows, pref) ==
    LET c == candidates(rows, pref)
    IN  {[alentejo |-> u1, sorted |-> s, algarve |-> u2, center |-> u3] :
            u1 \in 1..Max(1, Len(alentejo(c))),
            s \in sort_values(algarve(c)),
            u2 \in 1..Max(1, Min(TOP_K, Len(algarve(c)))),
            u3 \in 1..Max(1, Len(center(c)))}

\* the stop of the best-of band: sorted.head(5).sample(1)
algarve_pick(sorted, u) == sample(head(sorted, TOP_K), u)

\* an early return of [] for a frame without rows
generate_random_trip_early_return(rows, pref, r) ==
    IF rows = <<>>
    THEN <<>>
    ELSE LET c == candidates(rows, pref)
         IN  <<StartStop>>
             \o (IF alentejo(c) # <<>> THEN <<sample(alentejo(c), r.alentejo)>> ELSE <<>>)
             \o (IF algarve(c) # <<>> THEN <<algarve_pick(r.sorted, r.algarve)>> ELSE <<>>)
             \o (IF center(c) # <<>> THEN <<sample(center(c), r.center)>> ELSE <<>>)
             \o <<EndStop>>

\* the Algarve stop appended before the Alentejo stop
generate_random_trip_south_first(rows, pref, r) ==
    LET c == candidates(rows, pref)
    IN  <<StartStop>>
        \o (IF algarve(c) # <<>> THEN <<algarve_pick(r.sorted, r.algarve)>> ELSE <<>>)
        \o (IF alentejo(c) # <<>> THEN <<sample(alentejo(c), r.alentejo)>> ELSE <<>>)
        \o (IF center(c) # <<>> THEN <<sample(center(c), r.center)>> ELSE <<>>)
        \o <<EndStop>>

\* an empty band filled with a placeholder stop
PlaceholderStop ==
    [name |-> "", lat |-> 0, type |-> "", rating |-> 0, user_ratings_total |-> 0,
     amenity_score |-> 0, weighted_score |-> 0, weighted_score_class |-> "finite"]

generate_random_trip_placeholder(rows, pref, r) ==
    LET c == candidates(rows, pref)
    IN  <<StartStop>>
        \o (IF alentejo(c) # <<>> THEN <<sample(alentejo(c), r.alentejo)>>
            ELSE <<PlaceholderStop>>)
        \o (IF algarve(c) # <<>> THEN <<algarve_pick(r.sorted, r.algarve)>>
            ELSE <<PlaceholderStop>>)
        \o (IF center(c) # <<>> THEN <<sample(center(c), r.center)>>
            ELSE <<PlaceholderStop>>)
        \o <<EndStop>>

\* generate_random_trip(df, preference), for a frame that has its columns
generate_random_trip(rows, pref, r) ==
    LET c == candidates(rows, pref)
    IN  <<StartStop>>
        \o (IF alentejo(c) # <<>> THEN <<sample(alentejo(c), r.alentejo)>> ELSE <<>>)
        \o (IF algarve(c) # <<>> THEN <<algarve_pick(r.sorted, r.algarve)>> ELSE <<>>)
        \o (IF center(c) # <<>> THEN <<sample(center(c), r.center)>> ELSE <<>>)
        \o <<EndStop>>

NoDraw == [alentejo |-> 1, sorted |-> <<>>, algarve |-> 1, center |-> 1]

(***************************************************************************)
(* The datasets.  Catalog lists the locations a file may hold; a file      *)
(* holds any of them, in catalog order.                                    *)
(***************************************************************************)
Raw(name, lat, type, rating, reviews, amenity) ==
    [name |-> name, lat |-> lat, type |-> type, rating |-> rating,
     user_ratings_total |-> reviews, amenity_score |-> amenity]

Catalog ==
    << Raw("A",  380000, "Beach",     Num(45), Num(600),  Num(80)),
       Raw("B",  370000, "Beach",     Num(48), Num(1000), Num(50)),
       Raw("C1", 395000, "Viewpoint", Num(47), Num(501),  Num(50)),
       Raw("G1", 370179, "Campsite",  Num(45), Num(600),  Num(80)),
       Raw("X1", 372000, "Viewpoint", Num(49), Num(900),  Num(90)),
       Raw("G2", 371000, "Beach",     Num(40), Num(501),  Num(71)),
       Raw("A2", 373001, "Hiking",    Num(42), Num(500),  Num(70)),
       Raw("G4", 370300, "Campsite",  NaN,     Num(0),    Num(50)),
       Raw("G5", 369000, "Campsite",  NaN,     NaN,       Num(50)),
       Raw("X2", 390000, "Hostel",    Num(44), Num(700),  Num(75)),
       Raw("G6", 371999, "Hiking",    Num(50), Num(9),    Num(100)) >>

RECURSIVE SubSeqs(_)
\* every subsequence of s
SubSeqs(s) ==
    IF s = <<>>
    THEN {<<>>}
    ELSE LET rest == SubSeqs(Tail(s))
         IN  rest \cup {<<Head(s)>> \o t : t \in rest}

Datasets == {NoFile} \cup {File(rows) : rows \in SubSeqs(Catalog)}

Preferences == {"Balanced", "Wild & Nature", "Popular & Social", "WildNature"}
Recognized == {"Balanced", "Wild & Nature", "Popular & Social"}

(***************************************************************************)
(* Actions                                                                 *)
(***************************************************************************)
Idle == /\ i = 0
        /\ total_dist = 0
        /\ total_duration = 0
        /\ segments = <<>>
        /\ requests = <<>>
        /\ response = [raises |-> FALSE, status_code |-> 0, json |-> FALSE,
                       has_routes |-> FALSE, routes |-> <<>>]
        /\ existing_df = <<>>
        /\ cached_names = <<>>
        /\ new_rows = <<>>
        /\ pos = 0
        /\ original = csv

\* df = load_data()
LoadData ==
    /\ pc = "load"
    /\ df' = load_data(csv)
    /\ pc' = "loaded"
    /\ UNCHANGED <<csv, preference, rnd, trip, i, total_dist, total_duration, segments,
                   requests, response>>
    /\ UNCHANGED buildVars

\* a call generate_random_trip(df, p); a frame without columns raises KeyError
GenerateCall ==
    /\ pc \in {"loaded", "returned"}
    /\ \E p \in Preferences :
        IF df.columns = {}
        THEN /\ pc' = "KeyError"
             /\ preference' = p
             /\ UNCHANGED <<rnd, trip>>
        ELSE \E r \in RandomSources(df.rows, p) :
                /\ trip' = generate_random_trip(df.rows, p, r)
                /\ preference' = p
                /\ rnd' = r
                /\ pc' = "returned"
    /\ UNCHANGED <<csv, df, i, total_dist, total_duration, segments, requests, response>>
    /\ UNCHANGED buildVars

InitGen ==
    /\ csv \in Datasets
    /\ df = EmptyFrame
    /\ preference = "Balanced"
    /\ rnd = NoDraw
    /\ trip = <<>>
    /\ pc = "load"
    /\ Idle

NextGen == LoadData \/ GenerateCall

SpecGen == InitGen /\ [][NextGen]_vars

(***************************************************************************)
(* The routing call.  A response of the OSRM server as requests.get sees   *)
(* it: the call raises (timeout, transport error), or returns a status     *)
(* code and a body; the body is JSON or not, holds 'routes' or not.        *)
(***************************************************************************)
Route(distance, duration) ==
    [geometry |-> "geojson", distance |-> distance, duration |-> duration]

Response(raises, status_code, json, has_routes, routes) ==
    [raises |-> raises, status_code |-> status_code, json |-> json,
     has_routes |-> has_routes, routes |-> routes]

ShortRoute == Route(1500, 59)
LongRoute == Route(210000, 7260)
HourRoute == Route(90000, 3600)
\* a route object without 'distance' and 'duration'
BrokenRoute == [geometry |-> "geojson"]

\* no call made yet in this pass
NoResponse == Response(FALSE, 0, FALSE, FALSE, <<>>)

Responses ==
    { Response(TRUE, 0, FALSE, FALSE, <<>>),
      Response(FALSE, 500, TRUE, FALSE, <<>>),
      Response(FALSE, 404, FALSE, FALSE, <<>>),
      Response(FALSE, 404, TRUE, TRUE, <<ShortRoute>>),
      Response(FALSE, 200, FALSE, FALSE, <<>>),
      Response(FALSE, 200, TRUE, FALSE, <<>>),
      Response(FALSE, 200, TRUE, TRUE, <<>>),
      Response(FALSE, 200, TRUE, TRUE, <<BrokenRoute>>),
      Response(FALSE, 200, TRUE, TRUE, <<ShortRoute>>),
      Response(FALSE, 200, TRUE, TRUE, <<HourRoute>>),
      Response(FALSE, 200, TRUE, TRUE, <<LongRoute, ShortRoute>>) }

Segment(geo, dist, dur) == [geo |-> geo, dist |-> dist, dur |-> dur]

\* return None, 0, 0
Unavailable == Segment("None", 0, 0)

\* the route returned whatever the status code of the response is
get_route_segment_any_status(resp) ==
    IF /\ ~resp.raises
       /\ resp.json
       /\ resp.has_routes
       /\ Len(resp.routes) > 0
       /\ {"geometry", "distance", "duration"} \subseteq DOMAIN resp.routes[1]
    THEN Segment(resp.routes[1].geometry, resp.routes[1].distance,
                 resp.routes[1].duration)
    ELSE [geo |-> "None", dist |-> 0, dur |-> 0]

\* get_route_segment(start, end), given what the server answered; whatever
\* raises inside the try block (requests.get, r.json(), a missing key, an
\* empty list) is swallowed by the bare except
get_route_segment(resp) ==
    IF /\ ~resp.raises
       /\ resp.status_code = 200
       /\ resp.json
       /\ resp.has_routes
       /\ Len(resp.routes) > 0
       /\ {"geometry", "distance", "duration"} \subseteq DOMAIN resp.routes[1]
    THEN Segment(resp.routes[1].geometry, resp.routes[1].distance,
                 resp.routes[1].duration)
    ELSE Unavailable

(***************************************************************************)
(* Trip assembly                                                           *)
(***************************************************************************)
\* d[k] = v on a dict
SetKey(d, k, v) == [c \in DOMAIN d \cup {k} |-> IF c = k THEN v ELSE d[c]]

\* the minutes taken from the whole duration, not from what is left of the hour
drive_time_all_minutes(dur) ==
    LET hours == dur \div 3600
        mins == dur \div 60
    IN  IF hours > 0
        THEN ToString(hours) \o "h " \o ToString(mins) \o "m"
        ELSE ToString(mins) \o "m"

\* f"{hours}h {mins}m" if hours > 0 else f"{mins}m"
drive_time(dur) ==
    LET hours == dur \div 3600
        mins == (dur % 3600) \div 60
    IN  IF hours > 0
        THEN ToString(hours) \o "h " \o ToString(mins) \o "m"
        ELSE ToString(mins) \o "m"

\* the label written only when the leg has a routed geometry
label_leg_if_routed(t, k, seg) ==
    IF seg.geo = "None"
    THEN t
    ELSE [t EXCEPT ![k + 2] = SetKey(t[k + 2], "drive_time", drive_time(seg.dur))]

\* the label written over the stop's 'type' instead of a key of its own
label_leg_over_type(t, k, seg) ==
    [t EXCEPT ![k + 2] = SetKey(t[k + 2], "type", drive_time(seg.dur))]

\* trip[i+1]['drive_time'] = ...   (k is Python's i; sequences here start at 1)
label_leg(t, k, seg) ==
    [t EXCEPT ![k + 2] = SetKey(t[k + 2], "drive_time", drive_time(seg.dur))]

\* the totals carried over from the previous execution of the script
StartPass_keep_totals ==
    /\ i' = 0
    /\ UNCHANGED <<total_dist, total_duration>>
    /\ segments' = <<>>
    /\ requests' = <<>>
    /\ response' = NoResponse

\* total_dist = 0; total_duration = 0 and a fresh loop (lines 203-208)
StartPass ==
    /\ i' = 0
    /\ total_dist' = 0
    /\ total_duration' = 0
    /\ segments' = <<>>
    /\ requests' = <<>>
    /\ response' = NoResponse

\* lines 138-140
Stop ==
    /\ pc \in {"loaded", "stopped"}
    /\ df.rows = <<>>
    /\ pc' = "stopped"
    /\ UNCHANGED <<csv, df, preference, rnd, trip, i, total_dist, total_duration, segments,
                   requests, response>>
    /\ UNCHANGED buildVars

\* One execution of the script up to the assembly loop (lines 138-206):
\* the button may have been clicked, with the radio on p.
RunScript ==
    /\ pc \in {"loaded", "done"}
    /\ df.rows # <<>>
    /\ \E clicked \in (IF pc = "loaded" THEN {FALSE} ELSE BOOLEAN) :
       \E p \in Recognized :
       \E r \in (IF clicked THEN RandomSources(df.rows, p) ELSE {rnd}) :
          LET t == IF clicked THEN generate_random_trip(df.rows, p, r) ELSE trip
          IN  /\ preference' = (IF clicked THEN p ELSE preference)
              /\ rnd' = r
              /\ IF t # <<>>
                 THEN /\ trip' = [t EXCEPT ![1] = SetKey(t[1], "drive_time", "Start")]
                      /\ pc' = "assemble"
                 ELSE /\ trip' = t
                      /\ pc' = "done"
    /\ StartPass
    /\ UNCHANGED <<csv, df>>
    /\ UNCHANGED buildVars

\* one iteration of the loop of lines 208-223
Leg ==
    /\ pc = "assemble"
    /\ i < Len(trip) - 1
    /\ \E resp \in Responses :
          LET seg == get_route_segment(resp)
          IN  /\ total_dist' = total_dist + seg.dist
              /\ total_duration' = total_duration + seg.dur
              /\ trip' = label_leg(trip, i, seg)
              /\ segments' = Append(segments, seg)
              /\ response' = resp
    /\ requests' = Append(requests, [start |-> trip[i + 1].lat, end |-> trip[i + 2].lat])
    /\ i' = i + 1
    /\ UNCHANGED <<csv, df, preference, rnd, pc>>
    /\ UNCHANGED buildVars

\* the loop is over: summary, markers, itinerary table (lines 225-293)
Finish ==
    /\ pc = "assemble"
    /\ i = Len(trip) - 1
    /\ pc' = "done"
    /\ UNCHANGED <<csv, df, preference, rnd, trip, i, total_dist, total_duration, segments,
                   requests, response>>
    /\ UNCHANGED buildVars

MaxSessionRows == 3

SessionDatasets ==
    {NoFile} \cup {File(rows) : rows \in SubSeqs(SubSeq(Catalog, 1, MaxSessionRows))}

Init ==
    /\ csv \in SessionDatasets
    /\ df = EmptyFrame
    /\ preference = "Balanced"
    /\ rnd = NoDraw
    /\ trip = <<>>
    /\ pc = "load"
    /\ Idle

Next == LoadData \/ Stop \/ RunScript \/ Leg \/ Finish

Spec == Init /\ [][Next]_vars

(***************************************************************************)
(* Scoring of a single row, over the value ranges of the data model        *)
(***************************************************************************)
ReviewCounts == 0..MaxReviews \cup {99, 100, 500, 501, 999, 1000}
AmenityScores == {10 * k : k \in 0..10} \cup {25, 71}

Cells(values) == {NaN} \cup {Num(v) : v \in values}

InitScore ==
    /\ \E rating \in Cells(0..MaxRating) :
       \E reviews \in Cells(ReviewCounts) :
       \E amenity \in Cells(AmenityScores) :
          csv = File(<<Raw("P", 370000, "Beach", rating, reviews, amenity)>>)
    /\ df = EmptyFrame
    /\ preference = "Balanced"
    /\ rnd = NoDraw
    /\ trip = <<>>
    /\ pc = "load"
    /\ Idle

NextScore == LoadData

SpecScore == InitScore /\ [][NextScore]_vars

(***************************************************************************)
(* Scoring of a single row whose cells hold whatever the file holds:       *)
(* missing or non-numeric text (NaN), and numbers outside the data model's *)
(* ranges, which pd.to_numeric parses like any other number.               *)
(***************************************************************************)
RawRatings == Cells({0 - 10, 0, 45, 60})
RawReviews == Cells({0 - 5, 0 - 1, 0, 9, 600})
RawAmenities == Cells({0 - 20, 0, 50, 150})

InitRaw ==
    /\ \E rating \in RawRatings :
       \E reviews \in RawReviews :
       \E amenity \in RawAmenities :
          csv = File(<<Raw("P", 370000, "Beach", rating, reviews, amenity)>>)
    /\ df = EmptyFrame
    /\ preference = "Balanced"
    /\ rnd = NoDraw
    /\ trip = <<>>
    /\ pc = "load"
    /\ Idle

NextRaw == LoadData

SpecRaw == InitRaw /\ [][NextRaw]_vars

(***************************************************************************)
(* build_database (data_builder.py), the program that writes the file      *)
(* load_data reads.  In the file a name is text.  pd.read_csv turns the    *)
(* texts of its default NA list into NaN and a column whose other texts    *)
(* are all numbers into numbers (floats when a NaN is among them);         *)
(* to_csv writes NaN as the empty text and a float with its ".0".          *)
(* The columns lon and photo_reference are left out, as in the rest of     *)
(* the model; the cells of the numeric columns are Num or NaN, "N/A"       *)
(* being NaN once read.                                                    *)
(***************************************************************************)
SEARCH_POINTS == 12
FAST_MODE_AMENITY == 50
MaxPlaces == 2

\* texts of the model that pd.read_csv takes for NaN, and for a number
NA_VALUES == {"", "NA", "N/A", "NaN", "null"}
NumericTexts == {"1984"}

\* a Python str as a cell of the name column
StrName(text) == [kind |-> "str", text |-> text]

\* existing_df = pd.read_csv(csv_path): the rows, with the name column parsed
read_csv(file) ==
    LET texts == {file.rows[k].name : k \in 1..Len(file.rows)}
        present == texts \ NA_VALUES
        numeric == present # {} /\ present \subseteq NumericTexts
        kind(t) == IF t \in NA_VALUES THEN "nan"
                   ELSE IF ~numeric THEN "str"
                   ELSE IF texts \cap NA_VALUES # {} THEN "float"
                   ELSE "int"
    IN  [k \in 1..Len(file.rows) |->
            [file.rows[k] EXCEPT !.name =
                [kind |-> kind(@), text |-> IF @ \in NA_VALUES THEN "" ELSE @]]]

\* the text to_csv writes for a cell of the name column
write_name(cell) ==
    IF cell.kind = "nan" THEN ""
    ELSE IF cell.kind = "float" THEN cell.text \o ".0"
    ELSE cell.text

\* temp_df.to_csv(csv_path, index=False)
to_csv(rows) == File([k \in 1..Len(rows) |-> [rows[k] EXCEPT !.name = write_name(@)]])

\* name in cached_names, for a str name: no number and no NaN equals a str
in_cache(name, cached) == \E k \in 1..Len(cached) : cached[k] = StrName(name)

types_to_find ==
    [beach |-> "Beach", tourist_attraction |-> "Viewpoint",
     campground |-> "Campsite", park |-> "Hiking"]

\* the order in which the inner loop goes through types_to_find
TypeOrder == <<"beach", "tourist_attraction", "campground", "park">>

TypeRank(g_type) == CHOOSE k \in 1..Len(TypeOrder) : TypeOrder[k] = g_type

\* a place of a search_places answer
Place(name, lat, g_type, rating, reviews) ==
    [name |-> name, lat |-> lat, g_type |-> g_type, rating |-> rating, reviews |-> reviews]

ApiPlaces ==
    { Place("Praia da Rocha", 371167, "beach", Num(45), Num(600)),
      Place("NA", 380000, "tourist_attraction", NaN, Num(0)),
      Place("Faro Camper Park", 370179, "campground", Num(40), Num(30)),
      Place("1984", 395000, "park", Num(42), Num(12)) }

\* what the four search_places calls of one search point may return, in the
\* order the loop meets the places (an empty answer without API key or on error)
PlaceLists ==
    {s \in UNION {[1..n -> ApiPlaces] : n \in 0..MaxPlaces} :
        \A k \in 1..(Len(s) - 1) : TypeRank(s[k].g_type) <= TypeRank(s[k + 1].g_type)}

\* the dict appended to new_rows at lines 212-221
NewRow(p) ==
    [name |-> StrName(p.name), lat |-> p.lat, type |-> types_to_find[p.g_type],
     rating |-> p.rating, user_ratings_total |-> p.reviews,
     amenity_score |-> Num(FAST_MODE_AMENITY)]

RECURSIVE discover(_, _, _)
\* the loop `for p in places` of lines 204-225 over the places of a search point
discover(places, cached, rows) ==
    IF places = <<>>
    THEN [cached_names |-> cached, new_rows |-> rows]
    ELSE LET p == Head(places)
         IN  IF in_cache(p.name, cached)
             THEN discover(Tail(places), cached, rows)
             ELSE discover(Tail(places), Append(cached, StrName(p.name)),
                           Append(rows, NewRow(p)))

\* RawDataManager.get_raw_locations()
RawLocations ==
    << [name |-> "Goodmorning Solo Traveler Hostel", lat |-> 387155, type |-> "Hostel"],
       [name |-> "Home Lisbon Hostel", lat |-> 387106, type |-> "Hostel"],
       [name |-> "Yes! Lisbon Hostel", lat |-> 387116, type |-> "Hostel"],
       [name |-> "Monchique Resort", lat |-> 373215, type |-> "Campsite"],
       [name |-> "Faro Camper Park", lat |-> 370179, type |-> "Campsite"],
       [name |-> "Algarve Camping", lat |-> 370300, type |-> "Campsite"] >>

\* what fetch_google_places_data may return: the fallback, or a place's data
GoogleData ==
    { [rating |-> NaN, user_ratings_total |-> Num(0)],
      [rating |-> Num(48), user_ratings_total |-> Num(120)] }

\* 1. Load existing cache if available (lines 166-177)
LoadExisting ==
    /\ pc = "build"
    /\ existing_df' = (IF csv.exists THEN read_csv(csv) ELSE <<>>)
    /\ cached_names' = [k \in 1..Len(existing_df') |-> existing_df'[k].name]
    /\ new_rows' = <<>>
    /\ pos' = 0
    /\ pc' = "discover"
    /\ UNCHANGED <<csv, original>>
    /\ UNCHANGED dashVars

\* one search point: its four searches, then the progress save (lines 199-231)
DiscoverPoint ==
    /\ pc = "discover"
    /\ pos < SEARCH_POINTS
    /\ \E places \in PlaceLists :
          LET d == discover(places, cached_names, new_rows)
          IN  /\ cached_names' = d.cached_names
              /\ new_rows' = d.new_rows
              /\ csv' = (IF d.new_rows # <<>>
                         THEN to_csv(existing_df \o d.new_rows)
                         ELSE csv)
    /\ pos' = pos + 1
    /\ UNCHANGED <<pc, existing_df, original>>
    /\ UNCHANGED dashVars

\* the search points are exhausted: on to raw_df (line 234)
EndDiscovery ==
    /\ pc = "discover"
    /\ pos = SEARCH_POINTS
    /\ pc' = "raw"
    /\ pos' = 0
    /\ UNCHANGED <<csv, existing_df, cached_names, new_rows, original>>
    /\ UNCHANGED dashVars

\* one row of raw_df (lines 234-247); its name is not added to cached_names
FetchRaw ==
    /\ pc = "raw"
    /\ pos < Len(RawLocations)
    /\ LET row == RawLocations[pos + 1]
       IN  IF in_cache(row.name, cached_names)
           THEN new_rows' = new_rows
           ELSE \E google_data \in GoogleData :
                   new_rows' = Append(new_rows,
                       [name |-> StrName(row.name), lat |-> row.lat, type |-> row.type,
                        rating |-> google_data.rating,
                        user_ratings_total |-> google_data.user_ratings_total,
                        amenity_score |-> Num(FAST_MODE_AMENITY)])
    /\ pos' = pos + 1
    /\ UNCHANGED <<csv, pc, existing_df, cached_names, original>>
    /\ UNCHANGED dashVars

\* 4. Save Updates (lines 250-256)
FinalSave ==
    /\ pc = "raw"
    /\ pos = Len(RawLocations)
    /\ csv' = (IF new_rows # <<>> THEN to_csv(existing_df \o new_rows) ELSE csv)
    /\ pc' = "built"
    /\ UNCHANGED <<existing_df, cached_names, new_rows, pos, original>>
    /\ UNCHANGED dashVars

\* rows a file may hold when build_database starts; their names are distinct
StoredRows ==
    << Raw("Praia da Rocha", 371167, "Beach", Num(45), Num(600), Num(50)),
       Raw("NA", 380000, "Viewpoint", NaN, Num(0), Num(50)),
       Raw("1984", 395000, "Hiking", Num(42), Num(12), Num(50)),
       Raw("Home Lisbon Hostel", 387106, "Hostel", Num(48), Num(120), Num(50)) >>

BuildFiles == {NoFile} \cup {File(rows) : rows \in SubSeqs(StoredRows)}

InitBuild ==
    /\ csv \in BuildFiles
    /\ df = EmptyFrame
    /\ preference = "Balanced"
    /\ rnd = NoDraw
    /\ trip = <<>>
    /\ pc = "build"
    /\ Idle

NextBuild == LoadExisting \/ DiscoverPoint \/ EndDiscovery \/ FetchRaw \/ FinalSave

SpecBuild == InitBuild /\ [][NextBuild]_vars

(***************************************************************************)
(* Vocabulary of the properties of the generator                           *)
(***************************************************************************)
Rows == {df.rows[k] : k \in 1..Len(df.rows)}

\* the band a latitude belongs to: 1 Alentejo, 2 Algarve, 3 Centre, 0 none
BandOf(lat) ==
    IF lat > ALENTEJO_LO /\ lat < ALENTEJO_HI THEN 1
    ELSE IF lat < ALGARVE_HI THEN 2
    ELSE IF lat > CENTER_LO /\ lat < CENTER_HI THEN 3
    ELSE 0

Bands == 1..3

\* whether a location qualifies under a preference mode
Passes(x, pref) ==
    /\ pref = "Wild & Nature" => x.amenity_score > WILD_MIN_AMENITY
    /\ pref = "Popular & Social" => x.user_ratings_total > POPULAR_MIN_REVIEWS

\* the qualifying candidates of band b
Qualifying(b, pref) == {x \in Rows : BandOf(x.lat) = b /\ Passes(x, pref)}

\* positions of the stops between the two endpoints
InnerStops == 2..(Len(trip) - 1)

Returned == pc = "returned"

HasColumns == df.columns # {}

\* every itinerary generate_random_trip may return for this frame and mode
PossibleTrips(pref) ==
    {generate_random_trip(df.rows, pref, r) : r \in RandomSources(df.rows, pref)}

\* x is a stop of itinerary t
StopOf(x, t) == \E k \in 2..(Len(t) - 1) : t[k] = x

\* every band holds at least one location of the frame
C1_EveryBandPopulated == \A b \in Bands : \E x \in Rows : BandOf(x.lat) = b

(***************************************************************************)
(* C1: with at least one location in every band, Balanced returns exactly  *)
(* 5 stops, the first the start endpoint (Lisbon, Start) and the last the  *)
(* end endpoint (Porto, End), whatever is drawn.                           *)
(***************************************************************************)
C1_BalancedFullItinerary ==
    (Returned /\ preference = "Balanced" /\ C1_EveryBandPopulated)
        => /\ Len(trip) = 2 + Cardinality(Bands)
           /\ Len(trip) = 5
           /\ trip[1].name = "Lisbon" /\ trip[1].type = "Start"
           /\ trip[1].lat = LISBON_LAT
           /\ trip[Len(trip)].name = "Porto" /\ trip[Len(trip)].type = "End"
           /\ trip[Len(trip)].lat = PORTO_LAT

C1_Witness ==
    /\ Returned /\ preference = "Balanced" /\ C1_EveryBandPopulated
    /\ Len(trip) = 5
    /\ Len(df.rows) > 3

(***************************************************************************)
(* C2: under Wild & Nature no stop between the endpoints has               *)
(* amenity_score <= 70, and under Popular & Social none has                *)
(* user_ratings_total <= 500.                                              *)
(***************************************************************************)
C2_FilterRespected ==
    Returned =>
        /\ preference = "Wild & Nature" =>
              \A k \in InnerStops : ~(trip[k].amenity_score <= 70)
        /\ preference = "Popular & Social" =>
              \A k \in InnerStops : ~(trip[k].user_ratings_total <= 500)

\* a Wild & Nature itinerary with a stop, from a frame whose same band also
\* holds a location of amenity exactly 70
C2_Witness ==
    /\ Returned /\ preference = "Wild & Nature"
    /\ \E k \in InnerStops : \E x \in Rows :
          /\ BandOf(x.lat) = BandOf(trip[k].lat)
          /\ x.amenity_score = 70

(***************************************************************************)
(* C3: on a frame with no rows, Balanced raises nothing and returns        *)
(* exactly [Start, End].                                                   *)
(***************************************************************************)
C3_EmptySetTwoEndpoints ==
    (HasColumns /\ df.rows = <<>>)
        => /\ pc # "KeyError"
           /\ (Returned /\ preference = "Balanced") => trip = <<StartStop, EndStop>>

C3_Witness ==
    /\ HasColumns /\ df.rows = <<>>
    /\ Returned /\ preference = "Balanced"
    /\ Len(trip) = 2

(***************************************************************************)
(* C5: a preference that is none of the recognized modes does not fail and *)
(* behaves as Balanced: the pool is the whole frame, and the itinerary is  *)
(* the one Balanced returns for the same draws.                            *)
(***************************************************************************)
C5_UnrecognizedIsBalanced ==
    /\ (HasColumns /\ preference \notin Recognized) => pc # "KeyError"
    /\ (Returned /\ preference \notin Recognized)
          => /\ candidates(df.rows, preference) = df.rows
             /\ rnd \in RandomSources(df.rows, "Balanced")
             /\ trip = generate_random_trip(df.rows, "Balanced", rnd)
             /\ \A b \in Bands :
                   (\E x \in Rows : BandOf(x.lat) = b)
                      => \E k \in InnerStops : BandOf(trip[k].lat) = b

\* an unrecognized mode returned a stop both filters would have removed
C5_Witness ==
    /\ Returned /\ preference \notin Recognized
    /\ \E k \in InnerStops :
          /\ trip[k].amenity_score <= 70
          /\ trip[k].user_ratings_total <= 500

\* the names of a sequence of stops or rows
C6_Names(t) == [k \in 1..Len(t) |-> t[k].name]

(***************************************************************************)
(* C6: the stops between the endpoints come in the fixed band order        *)
(* Alentejo, Algarve, Centre, each with its latitude inside its band, and  *)
(* a band with exactly one qualifying candidate contributes that           *)
(* candidate; so locations A (lat 38.0) and B (lat 37.0) under Balanced    *)
(* give [Start, A, B, End].                                                *)
(***************************************************************************)
C6_BandOrder ==
    Returned =>
        /\ \A k \in InnerStops : BandOf(trip[k].lat) \in Bands
        /\ \A j \in InnerStops : \A k \in InnerStops :
              j < k => BandOf(trip[j].lat) < BandOf(trip[k].lat)
        /\ \A b \in Bands :
              Cardinality(Qualifying(b, preference)) = 1
                 => \A x \in Qualifying(b, preference) : StopOf(x, trip)
        /\ (C6_Names(df.rows) = <<"A", "B">> /\ preference = "Balanced")
              => C6_Names(trip) = <<"Lisbon", "A", "B", "Porto">>

C6_Witness ==
    /\ Returned /\ preference = "Balanced"
    /\ C6_Names(df.rows) = <<"A", "B">>
    /\ C6_Names(trip) = <<"Lisbon", "A", "B", "Porto">>
    /\ trip[2].lat = 380000 /\ trip[3].lat = 370000

\* the bands with a qualifying candidate under the active preference
C7_NonEmptyBands == {b \in Bands : Qualifying(b, preference) # {}}

(***************************************************************************)
(* C7: a band with no qualifying candidate under the active filter adds    *)
(* no stop and no placeholder, every other band adds exactly one stop, so  *)
(* the length is 2 + the number of bands with a qualifying candidate; and  *)
(* the call never fails on a frame that has its columns.                   *)
(***************************************************************************)
C7_EmptyBandSkipped ==
    /\ pc = "KeyError" => ~HasColumns
    /\ Returned =>
          /\ Len(trip) = 2 + Cardinality(C7_NonEmptyBands)
          /\ \A k \in InnerStops : trip[k] \in Rows
          /\ \A b \in Bands :
                Cardinality({k \in InnerStops : trip[k] \in Qualifying(b, preference)})
                    = IF b \in C7_NonEmptyBands THEN 1 ELSE 0

\* a band that has locations, none of which passes the filter, was skipped
C7_Witness ==
    /\ Returned /\ preference = "Wild & Nature"
    /\ Len(trip) = 4
    /\ \E b \in Bands :
          /\ Qualifying(b, preference) = {}
          /\ \E x \in Rows : BandOf(x.lat) = b

\* candidates of the best-of band ranked strictly above x
C8_Better(x, pref) ==
    {y \in Qualifying(2, pref) : y.weighted_score > x.weighted_score}

\* candidates of the best-of band, other than x, ranked at least as high as x
C8_NotWorse(x, pref) ==
    {y \in Qualifying(2, pref) \ {x} : y.weighted_score >= x.weighted_score}

(***************************************************************************)
(* C8: the stop of the best-of band (Algarve) is always among the top 5    *)
(* qualifying candidates of the band by weighted_score, each of the top 5  *)
(* can be the stop, and in the other two bands every qualifying candidate  *)
(* can be the stop.                                                        *)
(***************************************************************************)
C8_BestOfTopK ==
    /\ Returned =>
          \A k \in InnerStops :
              BandOf(trip[k].lat) = 2
                 => Cardinality(C8_Better(trip[k], preference)) < 5
    /\ pc = "loaded" /\ HasColumns =>
          \A p \in Preferences :
              /\ \A x \in Qualifying(2, p) :
                    Cardinality(C8_NotWorse(x, p)) < 5
                       => \E t \in PossibleTrips(p) : StopOf(x, t)
              /\ \A x \in Qualifying(1, p) \cup Qualifying(3, p) :
                    \E t \in PossibleTrips(p) : StopOf(x, t)

\* more than 5 candidates in the band and the one ranked fifth was drawn
C8_Witness ==
    /\ Returned
    /\ Cardinality(Qualifying(2, preference)) > 5
    /\ \E k \in InnerStops :
          /\ BandOf(trip[k].lat) = 2
          /\ Cardinality(C8_Better(trip[k], preference)) = 4

\* every routing call of the pass so far returned None, 0, 0
C4_AllLegsFailed == \A k \in 1..Len(segments) : segments[k] = Unavailable

(***************************************************************************)
(* C4: when the routing call fails on every leg, assembly still completes: *)
(* every stop but the start carries a drive_time label and both totals     *)
(* are exactly 0.                                                          *)
(***************************************************************************)
C4_RoutingDownStillLabelled ==
    /\ (pc = "assemble" /\ C4_AllLegsFailed) => ENABLED (Leg \/ Finish)
    /\ (pc = "done" /\ trip # <<>> /\ C4_AllLegsFailed)
          => /\ Len(segments) = Len(trip) - 1
             /\ \A k \in 2..Len(trip) :
                   /\ "drive_time" \in DOMAIN trip[k]
                   /\ trip[k].drive_time # "None"
             /\ total_dist = 0
             /\ total_duration = 0

\* a pass over a five-stop itinerary, fresh from the generator, all legs failed
C4_Witness ==
    /\ pc = "done" /\ Len(trip) = 5
    /\ Len(segments) = 4 /\ C4_AllLegsFailed
    /\ \A k \in 2..5 : trip[k].drive_time = "0m"
    /\ total_dist = 0 /\ total_duration = 0

(***************************************************************************)
(* C9: with review_count = 0 the score is amenity_score / 25, for every    *)
(* rating and amenity score, and it is computed without error.             *)
(***************************************************************************)
C9_ZeroReviewsScore ==
    pc = "loaded" =>
        /\ Len(df.rows) = Len(csv.rows)
        /\ \A x \in Rows :
              x.user_ratings_total = 0
                 => 25 * x.weighted_score = 250 * LogScale * x.amenity_score

C9_Witness ==
    /\ pc = "loaded"
    /\ \E x \in Rows :
          /\ x.user_ratings_total = 0
          /\ x.rating = 45 /\ x.amenity_score = 50
          /\ x.weighted_score = 2 * LogScale * 250

C11_ScoreAlwaysDefined ==
    pc = "loaded" =>
        /\ Len(df.rows) = Len(csv.rows)
        /\ \A x \in Rows : x.weighted_score_class = "finite"

C12_Success(resp) ==
    /\ ~resp.raises
    /\ resp.status_code \in 200..299
    /\ resp.json
    /\ resp.has_routes
    /\ resp.routes # <<>>

(***************************************************************************)
(* C12: get_route_segment answers every outcome of the routing call that   *)
(* is not a success with a route (the call raised, a non-2xx status, a     *)
(* body that is not JSON, no 'routes' or an empty 'routes') by the same    *)
(* unavailable result (None, 0, 0) and the script goes on; a result other  *)
(* than unavailable is the geometry, distance and duration of the first    *)
(* route of a successful response.                                         *)
(***************************************************************************)
C12_FailuresAllUnavailable ==
    segments # <<>> =>
        LET seg == segments[Len(segments)]
        IN  /\ pc \in {"assemble", "done"}
            /\ ~C12_Success(response) => seg = [geo |-> "None", dist |-> 0, dur |-> 0]
            /\ seg # [geo |-> "None", dist |-> 0, dur |-> 0] =>
                  /\ C12_Success(response)
                  /\ seg.geo = response.routes[1].geometry
                  /\ seg.dist = response.routes[1].distance
                  /\ seg.dur = response.routes[1].duration

C12_Witness ==
    /\ Len(segments) >= 2
    /\ response.status_code = 404
    /\ response.routes # <<>>
    /\ segments[Len(segments)] = Unavailable
    /\ segments[1].dist = 210000

RECURSIVE C13_Sum(_)
C13_Sum(s) == IF s = <<>> THEN 0 ELSE Head(s) + C13_Sum(Tail(s))

(***************************************************************************)
(* C13: an assembly pass requests one route segment per consecutive pair   *)
(* of stops, in itinerary order and once each (i requests after i legs,    *)
(* Len(trip) - 1 when the pass is over), and the totals are the sums of    *)
(* the distances and durations returned in this pass alone, a failed leg   *)
(* counting 0: nothing is carried over from an earlier pass.               *)
(***************************************************************************)
C13_OneRequestPerLeg ==
    (pc \in {"assemble", "done"} /\ trip # <<>>) =>
        /\ Len(requests) = i
        /\ Len(segments) = i
        /\ i <= Len(trip) - 1
        /\ pc = "done" => i = Len(trip) - 1
        /\ \A k \in 1..i :
              requests[k] = [start |-> trip[k].lat, end |-> trip[k + 1].lat]
        /\ total_dist = C13_Sum([k \in 1..i |-> segments[k].dist])
        /\ total_duration = C13_Sum([k \in 1..i |-> segments[k].dur])

\* a second pass over a stored itinerary whose last leg took 2h 1m before
C13_Witness ==
    /\ pc = "assemble"
    /\ Len(trip) >= 3
    /\ i = 1
    /\ "drive_time" \in DOMAIN trip[Len(trip)]
    /\ trip[Len(trip)].drive_time = "2h 1m"
    /\ total_duration = 59
    /\ total_dist = 1500

C14_Label(d) ==
    LET hours == d \div 3600
        mins == (d % 3600) \div 60
    IN  IF hours > 0
        THEN ToString(hours) \o "h " \o ToString(mins) \o "m"
        ELSE ToString(mins) \o "m"

(***************************************************************************)
(* C14: the start stop is labelled "Start", and the stop a leg arrives at  *)
(* is labelled from the duration d of that leg alone: "<d div 3600>h       *)
(* <(d mod 3600) div 60>m" when d div 3600 > 0 and "<(d mod 3600) div      *)
(* 60>m" otherwise, the minutes being in 0..59; a leg of duration 0, a     *)
(* failed one included, is labelled "0m".                                  *)
(***************************************************************************)
C14_LabelFromOwnLeg ==
    (pc \in {"assemble", "done"} /\ trip # <<>>) =>
        /\ trip[1].drive_time = "Start"
        /\ \A k \in 1..Len(segments) :
              LET d == segments[k].dur
              IN  /\ trip[k + 1].drive_time = C14_Label(d)
                  /\ (d % 3600) \div 60 \in 0..59
                  /\ d = 0 => trip[k + 1].drive_time = "0m"
                  /\ d = 3600 => trip[k + 1].drive_time = "1h 0m"
                  /\ d = 7260 => trip[k + 1].drive_time = "2h 1m"

C14_Witness ==
    /\ pc = "done"
    /\ Len(trip) >= 4
    /\ trip[2].drive_time = "2h 1m"
    /\ trip[3].drive_time = "0m"
    /\ segments[2] = Unavailable
    /\ trip[4].drive_time = "1h 0m"
    /\ total_duration = 10860

\* a stored itinerary without its drive_time labels
C15_Stops(t) ==
    [k \in 1..Len(t) |-> [c \in DOMAIN t[k] \ {"drive_time"} |-> t[k][c]]]

\* the session holds no itinerary, or what the last generation request returned
C15_LastGeneration ==
    trip # <<>> =>
        /\ preference \in Recognized
        /\ rnd \in RandomSources(df.rows, preference)
        /\ C15_Stops(trip) = generate_random_trip(df.rows, preference, rnd)

\* a step keeps the stops of the stored itinerary, or is the start of a script
\* run that stores a whole new result of generate_random_trip
C15_OnlyLabelsChange ==
    \/ C15_Stops(trip') = C15_Stops(trip)
    \/ /\ pc = "done"
       /\ pc' = "assemble"
       /\ trip' # <<>>
       /\ \A k \in 2..Len(trip') : "drive_time" \notin DOMAIN trip'[k]
       /\ C15_Stops(trip') = generate_random_trip(df.rows, preference', rnd')

(***************************************************************************)
(* C15: through any sequence of Generate Route requests and re-runs of the *)
(* script, the one itinerary kept in the session is always the complete    *)
(* result of the latest generation request; a new request replaces it as   *)
(* a whole, and every other step changes at most the drive_time labels of  *)
(* its stops: the stops, their order and their other fields stay.          *)
(***************************************************************************)
C15_LatestItineraryKept == []C15_LastGeneration /\ [][C15_OnlyLabelsChange]_vars

\* a re-run over a stored Wild & Nature itinerary, labels of the last run kept
C15_Witness ==
    /\ pc = "assemble"
    /\ i = 1
    /\ preference = "Wild & Nature"
    /\ Len(trip) = 3
    /\ trip[2].drive_time = "0m"
    /\ "drive_time" \in DOMAIN trip[3]
    /\ trip[3].drive_time = "1h 0m"
    /\ C15_Stops(trip) = generate_random_trip(df.rows, preference, rnd)

\* the rows of sequence s, as a set
C16_Set(s) == {s[k] : k \in 1..Len(s)}

(***************************************************************************)
(* C16: the three bands select disjoint sets of locations, so the stops    *)
(* between Lisbon and Porto of a returned itinerary are pairwise distinct  *)
(* records, for every location set, mode and random choice: no location    *)
(* is visited twice.                                                       *)
(***************************************************************************)
C16_NoStopTwice ==
    Returned =>
        /\ C16_Set(alentejo(df.rows)) \cap C16_Set(algarve(df.rows)) = {}
        /\ C16_Set(alentejo(df.rows)) \cap C16_Set(center(df.rows)) = {}
        /\ C16_Set(algarve(df.rows)) \cap C16_Set(center(df.rows)) = {}
        /\ \A j \in InnerStops : \A k \in InnerStops :
              j # k => /\ trip[j] # trip[k]
                       /\ trip[j].name # trip[k].name

C16_Witness ==
    /\ Returned
    /\ Len(trip) = 5
    /\ Len(df.rows) >= 6
    /\ preference = "Popular & Social"
    /\ Cardinality({trip[k].name : k \in InnerStops}) = 3

\* the names of the rows of a file, in order
C17_Names(file) == [k \in 1..Len(file.rows) |-> file.rows[k].name]

C17_Unique(names) ==
    \A j \in 1..Len(names) : \A k \in 1..Len(names) : j # k => names[j] # names[k]

\* a is the beginning of b
C17_Prefix(a, b) == Len(a) <= Len(b) /\ SubSeq(b, 1, Len(a)) = a

\* the file holds distinct names and begins with the rows it had at the start
C17_FileKeepsRows ==
    C17_Unique(C17_Names(original)) =>
        /\ C17_Unique(C17_Names(csv))
        /\ C17_Prefix(original.rows, csv.rows)

\* a save only adds rows at the end of the file
C17_SaveOnlyGrows == csv' # csv => C17_Prefix(csv.rows, csv'.rows)

(***************************************************************************)
(* C17: build_database never appends a place whose name is in the cache    *)
(* (read from the existing file, or added earlier in the run), so when the *)
(* names of the existing file are distinct, every file it writes, at a     *)
(* progress save or at the final save, holds distinct names, holds all the *)
(* rows of the existing file unchanged, and each save only adds rows to    *)
(* what the save before it wrote.                                          *)
(***************************************************************************)
C17_UniqueNamesKept == []C17_FileKeepsRows /\ [][C17_SaveOnlyGrows]_vars

====
